---- MODULE Spec2Model ----
(***************************************************************************)
(* Model of the expression_parser package: config validation, expression  *)
(* building, AST evaluation, row filtering, group aggregation and the      *)
(* ExpressionParser orchestrator (evaluate / evaluate_plot_config).        *)
(*                                                                         *)
(* JSON-shaped values are tagged records:                                  *)
(*   [t |-> "str", s |-> ..]   a string                                    *)
(*   [t |-> "num", n |-> ..]   an int / float                              *)
(*   [t |-> "bool", n |-> ..]  a bool (a Python bool is an int: n is 0/1)  *)
(*   [t |-> "null"]            None                                        *)
(*   [t |-> "list", items |-> <<..>>]  a list                              *)
(*   [t |-> "dict", d |-> f]   a dict, f a function from keys to values    *)
(* A config is the function f of a dict.  Operator and function names are  *)
(* plain strings.                                                          *)
(***************************************************************************)
EXTENDS Integers, Sequences, FiniteSets, TLC

VARIABLES caller,   \* the table owned by the caller
          df,       \* ExpressionParser.df, the private copy
          pc,       \* "idle" or "returned"
          call,     \* "none", "evaluate" or "evaluate_plot_config"
          config,   \* the config passed to the current call
          outcome   \* what the current call returned or raised

vars == <<caller, df, pc, call, config, outcome>>

(***************************************************************************)
(* Bounds                                                                  *)
(***************************************************************************)
MaxRows == 2      \* rows of a table
MaxVal == 1       \* cell values are 0..MaxVal
MaxDepth == 2     \* nesting depth of a select expression
MaxFilters == 2   \* entries of a filter list

(***************************************************************************)
(* JSON values                                                             *)
(***************************************************************************)
Str(s) == [t |-> "str", s |-> s]
Num(n) == [t |-> "num", n |-> n]
Bool(n) == [t |-> "bool", n |-> n]
Null == [t |-> "null"]
List(items) == [t |-> "list", items |-> items]
Dict(d) == [t |-> "dict", d |-> d]

EmptyDict == <<>>

\* isinstance(x, str)
IsStr(x) == x.t = "str"
\* isinstance(x, (int, float)): bool is a subclass of int
IsNumber(x) == x.t \in {"num", "bool"}
\* isinstance(x, dict)
IsDict(x) == x.t = "dict"
\* isinstance(x, list)
IsList(x) == x.t = "list"

(***************************************************************************)
(* Registries                                                              *)
(***************************************************************************)
SUPPORTED_BINARY_OPS == {"+", "-"}
BINARY_OPERATORS == {"+", "-"}
FILTER_OPERATORS == {">", "<", "=="}
AGGREGATION_FUNCTIONS == {"mean", "sum"}

(***************************************************************************)
(* Tables.  A table has a list of column names and a sequence of rows;     *)
(* a row carries its row index (the DataFrame index label) and its cells.  *)
(***************************************************************************)
Columns == <<"a", "b">>
ColumnSet == {Columns[i] : i \in 1..Len(Columns)}
Vals == 0..MaxVal

RECURSIVE TablesOfLen(_)
TablesOfLen(n) ==
  IF n = 0 THEN {<<>>}
  ELSE {Append(rs, [idx |-> n - 1, cells |-> c]) :
          rs \in TablesOfLen(n - 1), c \in [ColumnSet -> Vals]}

Tables == {[columns |-> Columns, rows |-> rs] :
             rs \in UNION {TablesOfLen(n) : n \in 1..MaxRows}}

\* list(self.df.columns)
DfColumns(table) == {table.columns[i] : i \in 1..Len(table.columns)}

\* dataframe.copy()
Copy(table) == table


(***************************************************************************)
(* config_validator.py.  A validator returns "ok" or the message of the    *)
(* ConfigValidationError it raises.                                        *)
(***************************************************************************)
OK == "ok"

\* _validate_select_expression that does not descend into the right operand
RECURSIVE validate_select_expression_leftonly(_, _)
validate_select_expression_leftonly(expr, df_columns) ==
  IF IsStr(expr) THEN
    IF expr.s \notin df_columns THEN "Column not found in DataFrame" ELSE "ok"
  ELSE IF IsNumber(expr) THEN "ok"
  ELSE IF IsDict(expr) THEN
    IF "op" \notin DOMAIN expr.d THEN "Expression dict must contain 'op' key"
    ELSE IF "left" \notin DOMAIN expr.d \/ "right" \notin DOMAIN expr.d
      THEN "Binary operation must have 'left' and 'right' keys"
    ELSE IF expr.d["op"] \notin SUPPORTED_BINARY_OPS THEN "Unsupported operator"
    ELSE validate_select_expression_leftonly(expr.d["left"], df_columns)
  ELSE "Invalid expression type"

\* _validate_select_expression without the test of the operator
RECURSIVE validate_select_expression_anyop(_, _)
validate_select_expression_anyop(expr, df_columns) ==
  IF IsStr(expr) THEN
    IF expr.s \notin df_columns THEN "Column not found in DataFrame" ELSE "ok"
  ELSE IF IsNumber(expr) THEN "ok"
  ELSE IF IsDict(expr) THEN
    IF "op" \notin DOMAIN expr.d THEN "Expression dict must contain 'op' key"
    ELSE IF "left" \notin DOMAIN expr.d \/ "right" \notin DOMAIN expr.d
      THEN "Binary operation must have 'left' and 'right' keys"
    ELSE LET l == validate_select_expression_anyop(expr.d["left"], df_columns)
         IN  IF l # "ok" THEN l
             ELSE validate_select_expression_anyop(expr.d["right"], df_columns)
  ELSE "Invalid expression type"

RECURSIVE validate_select_expression(_, _)
validate_select_expression(expr, df_columns) ==
  IF IsStr(expr) THEN
    IF expr.s \notin df_columns THEN "Column not found in DataFrame" ELSE OK
  ELSE IF IsNumber(expr) THEN OK
  ELSE IF IsDict(expr) THEN
    IF "op" \notin DOMAIN expr.d THEN "Expression dict must contain 'op' key"
    ELSE IF "left" \notin DOMAIN expr.d \/ "right" \notin DOMAIN expr.d
      THEN "Binary operation must have 'left' and 'right' keys"
    ELSE IF expr.d["op"] \notin SUPPORTED_BINARY_OPS THEN "Unsupported operator"
    ELSE LET l == validate_select_expression(expr.d["left"], df_columns)
         IN  IF l # OK THEN l
             ELSE validate_select_expression(expr.d["right"], df_columns)
  ELSE "Invalid expression type"

\* the checks of one filter without the type test of value
validate_filter_entry_anyvalue(f, df_columns) ==
  IF ~IsDict(f) THEN "Filter must be a dict"
  ELSE IF ~({"column", "op", "value"} \subseteq DOMAIN f.d)
    THEN "Filter missing required keys"
  ELSE IF f.d["column"] \notin df_columns THEN "Filter column not found in DataFrame"
  ELSE IF f.d["op"] \notin FILTER_OPERATORS THEN "Unsupported filter operator"
  ELSE "ok"

\* the checks of one loop iteration of _validate_filters
validate_filter_entry(f, df_columns) ==
  IF ~IsDict(f) THEN "Filter must be a dict"
  ELSE IF ~({"column", "op", "value"} \subseteq DOMAIN f.d)
    THEN "Filter missing required keys"
  ELSE IF f.d["column"] \notin df_columns THEN "Filter column not found in DataFrame"
  ELSE IF f.d["op"] \notin FILTER_OPERATORS THEN "Unsupported filter operator"
  ELSE IF ~(IsNumber(f.d["value"]) \/ IsStr(f.d["value"]))
    THEN "Filter value must be int, float, or str"
  ELSE OK

RECURSIVE validate_filters_from(_, _, _)
validate_filters_from(items, idx, df_columns) ==
  IF idx > Len(items) THEN OK
  ELSE LET r == validate_filter_entry(items[idx], df_columns)
       IN  IF r # OK THEN r ELSE validate_filters_from(items, idx + 1, df_columns)

validate_filters(filters, df_columns) ==
  IF ~IsList(filters) THEN "Filters must be a list"
  ELSE IF Len(filters.items) = 0 THEN "Filter list cannot be empty"
  ELSE validate_filters_from(filters.items, 1, df_columns)

\* validate_aggregation without the membership test of func
validate_aggregation_unchecked(aggregation) ==
  IF ~IsDict(aggregation) THEN "Aggregation must be a dict"
  ELSE IF "func" \notin DOMAIN aggregation.d THEN "Aggregation must contain 'func' key"
  ELSE "ok"

validate_aggregation(aggregation) ==
  IF ~IsDict(aggregation) THEN "Aggregation must be a dict"
  ELSE IF "func" \notin DOMAIN aggregation.d THEN "Aggregation must contain 'func' key"
  ELSE IF aggregation.d["func"] \notin AGGREGATION_FUNCTIONS
    THEN "Unsupported aggregation function"
  ELSE OK

valid_keys == {"select", "filter", "group_by", "aggregate", "name"}

\* validate_config without the rejection of group_by without aggregate
validate_config_grouponly(cfg, df_columns) ==
  IF DOMAIN cfg = {} THEN "Config cannot be empty"
  ELSE IF "select" \notin DOMAIN cfg THEN "Config must contain 'select' key"
  ELSE LET s == validate_select_expression(cfg["select"], df_columns)
           f == IF "filter" \in DOMAIN cfg
                THEN validate_filters(cfg["filter"], df_columns) ELSE OK
           a == IF "aggregate" \in DOMAIN cfg
                THEN IF "group_by" \notin DOMAIN cfg
                       THEN "Aggregation requires 'group_by' key"
                     ELSE IF cfg["group_by"] \notin df_columns
                       THEN "group_by column not found in DataFrame"
                     ELSE validate_aggregation(cfg["aggregate"])
                ELSE OK
       IN  IF s # OK THEN s
           ELSE IF f # OK THEN f
           ELSE IF a # OK THEN a
           ELSE IF DOMAIN cfg \ valid_keys # {} THEN "Unknown config keys"
           ELSE OK

validate_config(cfg, df_columns) ==
  IF DOMAIN cfg = {} THEN "Config cannot be empty"
  ELSE IF "select" \notin DOMAIN cfg THEN "Config must contain 'select' key"
  ELSE LET s == validate_select_expression(cfg["select"], df_columns)
           f == IF "filter" \in DOMAIN cfg
                THEN validate_filters(cfg["filter"], df_columns) ELSE OK
           a == IF "aggregate" \in DOMAIN cfg
                THEN IF "group_by" \notin DOMAIN cfg
                       THEN "Aggregation requires 'group_by' key"
                     ELSE IF cfg["group_by"] \notin df_columns
                       THEN "group_by column not found in DataFrame"
                     ELSE validate_aggregation(cfg["aggregate"])
                ELSE OK
       IN  IF s # OK THEN s
           ELSE IF f # OK THEN f
           ELSE IF a # OK THEN a
           ELSE IF "group_by" \in DOMAIN cfg /\ "aggregate" \notin DOMAIN cfg
             THEN "'group_by' specified but no 'aggregate' provided"
           ELSE IF DOMAIN cfg \ valid_keys # {} THEN "Unknown config keys"
           ELSE OK

\* config[k].get("select") is a bare literal
SelectIsLiteral(cfg) == "select" \in DOMAIN cfg /\ IsNumber(cfg["select"])

\* validate_plot_config without the literal test of the y side
validate_plot_config_xliteral(cfg, df_columns) ==
  IF "select" \in DOMAIN cfg THEN
    IF IsNumber(cfg["select"]) THEN "Plotting a literal value is not meaningful"
    ELSE validate_config(cfg, df_columns)
  ELSE IF "x-values" \in DOMAIN cfg /\ "y-values" \in DOMAIN cfg THEN
    LET x == validate_config(cfg["x-values"], df_columns)
        y == validate_config(cfg["y-values"], df_columns)
    IN  IF x # OK THEN x
        ELSE IF y # OK THEN y
        ELSE IF SelectIsLiteral(cfg["x-values"]) THEN "x-values cannot be a literal value"
        ELSE OK
  ELSE "Config must have either 'select' or both 'x-values' and 'y-values'"

validate_plot_config(cfg, df_columns) ==
  IF "select" \in DOMAIN cfg THEN
    IF IsNumber(cfg["select"]) THEN "Plotting a literal value is not meaningful"
    ELSE validate_config(cfg, df_columns)
  ELSE IF "x-values" \in DOMAIN cfg /\ "y-values" \in DOMAIN cfg THEN
    LET x == validate_config(cfg["x-values"], df_columns)
        y == validate_config(cfg["y-values"], df_columns)
    IN  IF x # OK THEN x
        ELSE IF y # OK THEN y
        ELSE IF SelectIsLiteral(cfg["x-values"]) THEN "x-values cannot be a literal value"
        ELSE IF SelectIsLiteral(cfg["y-values"]) THEN "y-values cannot be a literal value"
        ELSE OK
  ELSE "Config must have either 'select' or both 'x-values' and 'y-values'"

(***************************************************************************)
(* ast.py and expression_builder.py.  parse_expression returns             *)
(* [err |-> "none", node |-> ..] or [err |-> the exception raised].        *)
(***************************************************************************)
ColumnRefNode(column) == [node |-> "ColumnRef", column |-> column]
LiteralNode(value) == [node |-> "Literal", value |-> value]
BinaryOpNode(op, left, right) ==
  [node |-> "BinaryOp", op |-> op, left |-> left, right |-> right]
FunctionNode(name, arg) == [node |-> "Function", name |-> name, arg |-> arg]

Raise(e) == [err |-> e]

RECURSIVE parse_expression(_)
parse_expression(expr) ==
  IF IsStr(expr) THEN [err |-> "none", node |-> ColumnRefNode(expr.s)]
  ELSE IF IsNumber(expr) THEN [err |-> "none", node |-> LiteralNode(expr)]
  ELSE IF IsDict(expr) THEN
    IF "op" \in DOMAIN expr.d THEN
      IF "left" \notin DOMAIN expr.d THEN Raise("KeyError")
      ELSE LET left == parse_expression(expr.d["left"])
           IN  IF left.err # "none" THEN left
               ELSE IF "right" \notin DOMAIN expr.d THEN Raise("KeyError")
               ELSE LET right == parse_expression(expr.d["right"])
                    IN  IF right.err # "none" THEN right
                        ELSE IF expr.d["op"] \in SUPPORTED_BINARY_OPS
                          THEN [err |-> "none",
                                node |-> BinaryOpNode(expr.d["op"], left.node, right.node)]
                        ELSE Raise("UnsupportedOperatorError")
    ELSE Raise("InvalidExpressionFormat")
  ELSE Raise("InvalidExpressionFormat")

(***************************************************************************)
(* Values computed from a table.                                           *)
(*   [kind |-> "scalar", py |-> v]     a Python number, v a JSON number    *)
(*   [kind |-> "series", name, rows]   a pd.Series: rows of [idx, v]       *)
(*   [kind |-> "grouped", name, rows]  a pd.Series indexed by group key:   *)
(*                                     rows of [key, num, den], the value  *)
(*                                     being the quotient num / den        *)
(***************************************************************************)
NoName == "<None>"

Scalar(v) == [kind |-> "scalar", py |-> v]
Series(name, rows) == [kind |-> "series", name |-> name, rows |-> rows]
IsSeries(x) == x.kind = "series"

\* df.iloc[:, 0] in place of df[column]
GetColumn_first(table, column) ==
  Series(column, [i \in 1..Len(table.rows) |->
                    [idx |-> table.rows[i].idx,
                     v |-> table.rows[i].cells[table.columns[1]]]])

\* df[column], the column as a pd.Series carrying the row index
GetColumn(table, column) ==
  Series(column, [i \in 1..Len(table.rows) |->
                    [idx |-> table.rows[i].idx, v |-> table.rows[i].cells[column]]])

(***************************************************************************)
(* evaluator.py                                                            *)
(***************************************************************************)
\* BINARY_OPERATORS[op] on two numbers
ApplyNum(op, l, r) == IF op = "+" THEN l + r ELSE l - r

\* the name pandas gives the result of a binary operation
ResultName(left, right) ==
  IF IsSeries(left) /\ IsSeries(right)
    THEN IF left.name = right.name THEN left.name ELSE NoName
  ELSE IF IsSeries(left) THEN left.name
  ELSE right.name

\* op_func that applies a reflected operation (scalar on the left) with
\* its operands exchanged
op_func_reflected(op, left, right) ==
  IF ~IsSeries(left) /\ ~IsSeries(right)
    THEN Scalar(Num(ApplyNum(op, left.py.n, right.py.n)))
  ELSE IF IsSeries(left) /\ IsSeries(right)
    THEN Series(ResultName(left, right),
                [i \in 1..Len(left.rows) |->
                   [idx |-> left.rows[i].idx,
                    v |-> ApplyNum(op, left.rows[i].v, right.rows[i].v)]])
  ELSE IF IsSeries(left)
    THEN Series(ResultName(left, right),
                [i \in 1..Len(left.rows) |->
                   [idx |-> left.rows[i].idx,
                    v |-> ApplyNum(op, left.rows[i].v, right.py.n)]])
  ELSE Series(ResultName(left, right),
              [i \in 1..Len(right.rows) |->
                 [idx |-> right.rows[i].idx,
                  v |-> ApplyNum(op, right.rows[i].v, left.py.n)]])

\* BINARY_OPERATORS[op](left, right): scalars combine to a scalar, a scalar
\* is broadcast over a series, two series combine row by row
op_func(op, left, right) ==
  IF ~IsSeries(left) /\ ~IsSeries(right)
    THEN Scalar(Num(ApplyNum(op, left.py.n, right.py.n)))
  ELSE IF IsSeries(left) /\ IsSeries(right)
    THEN Series(ResultName(left, right),
                [i \in 1..Len(left.rows) |->
                   [idx |-> left.rows[i].idx,
                    v |-> ApplyNum(op, left.rows[i].v, right.rows[i].v)]])
  ELSE IF IsSeries(left)
    THEN Series(ResultName(left, right),
                [i \in 1..Len(left.rows) |->
                   [idx |-> left.rows[i].idx,
                    v |-> ApplyNum(op, left.rows[i].v, right.py.n)]])
  ELSE Series(ResultName(left, right),
              [i \in 1..Len(right.rows) |->
                 [idx |-> right.rows[i].idx,
                  v |-> ApplyNum(op, left.py.n, right.rows[i].v)]])

RECURSIVE evaluate_ast(_, _)
evaluate_ast(table, node) ==
  IF node.node = "ColumnRef" THEN
    IF node.column \in DfColumns(table)
      THEN [err |-> "none", val |-> GetColumn(table, node.column)]
      ELSE Raise("KeyError")
  ELSE IF node.node = "Literal" THEN [err |-> "none", val |-> Scalar(node.value)]
  ELSE IF node.node = "BinaryOp" THEN
    LET left == evaluate_ast(table, node.left)
    IN  IF left.err # "none" THEN left
        ELSE LET right == evaluate_ast(table, node.right)
             IN  IF right.err # "none" THEN right
                 ELSE IF node.op \notin BINARY_OPERATORS
                   THEN Raise("UnsupportedOperatorError")
                 ELSE [err |-> "none", val |-> op_func(node.op, left.val, right.val)]
  ELSE IF node.node = "Function" THEN Raise("NotImplementedError")
  ELSE Raise("ValueError")

(***************************************************************************)
(* filters.py                                                              *)
(***************************************************************************)
\* FILTER_OPERATORS[op] on two numbers
CompareNum(op, c, v) ==
  IF op = ">" THEN c > v ELSE IF op = "<" THEN c < v ELSE c = v

\* filter_func(df[col], val) raises TypeError when an integer column is
\* ordered against a value that is not a number
MaskRaises(op, val) == ~IsNumber(val) /\ op # "=="

\* one element of the boolean mask filter_func(df[col], val)
Mask(op, cell, val) == IF IsNumber(val) THEN CompareNum(op, cell, val.n) ELSE FALSE

\* df[mask]: the rows whose mask is true, in order, keeping their index
SelectRows(table, col, op, val) ==
  [table EXCEPT !.rows = SelectSeq(table.rows,
                                   LAMBDA r : Mask(op, r.cells[col], val))]

\* one iteration of the loop of apply_filters
apply_filter(table, f) ==
  IF ~IsDict(f) THEN Raise("TypeError")
  ELSE IF ~({"column", "op", "value"} \subseteq DOMAIN f.d) THEN Raise("KeyError")
  ELSE IF f.d["op"] \notin FILTER_OPERATORS THEN Raise("UnsupportedOperatorError")
  ELSE IF f.d["column"] \notin DfColumns(table) THEN Raise("KeyError")
  ELSE IF MaskRaises(f.d["op"], f.d["value"]) THEN Raise("TypeError")
  ELSE [err |-> "none",
        df |-> SelectRows(table, f.d["column"], f.d["op"], f.d["value"])]

\* apply_filters returning from inside its loop, after the first filter
apply_filters_from_returnfirst(table, items, i) ==
  IF i > Len(items) THEN [err |-> "none", df |-> table]
  ELSE apply_filter(table, items[i])

RECURSIVE apply_filters_from(_, _, _)
apply_filters_from(table, items, i) ==
  IF i > Len(items) THEN [err |-> "none", df |-> table]
  ELSE LET r == apply_filter(table, items[i])
       IN  IF r.err # "none" THEN r ELSE apply_filters_from(r.df, items, i + 1)

\* iterating a value that is not a list of dicts raises TypeError
apply_filters(table, filters) ==
  IF ~IsList(filters) THEN Raise("TypeError")
  ELSE apply_filters_from(table, filters.items, 1)

(***************************************************************************)
(* aggregations.py                                                         *)
(***************************************************************************)
Min(S) == CHOOSE x \in S : \A y \in S : x <= y

\* the group keys in ascending order (groupby sorts the keys)
RECURSIVE SortedKeys(_)
SortedKeys(S) ==
  IF S = {} THEN <<>> ELSE <<Min(S)>> \o SortedKeys(S \ {Min(S)})

\* sum and count of the values of rows i.. whose key is k
RECURSIVE GroupAcc(_, _, _, _)
GroupAcc(keys, vals, k, i) ==
  IF i > Len(keys) THEN [sum |-> 0, count |-> 0]
  ELSE LET rest == GroupAcc(keys, vals, k, i + 1)
       IN  IF keys[i] = k
             THEN [sum |-> rest.sum + vals[i].v, count |-> rest.count + 1]
             ELSE rest

\* getattr(temp_df.groupby(group_by), agg_method)().iloc[:, 0]
GroupReduce(keys, series, agg_method) ==
  LET ks == SortedKeys({keys[i] : i \in 1..Len(keys)})
  IN  [kind |-> "grouped", name |-> series.name,
       rows |-> [j \in 1..Len(ks) |->
                   LET acc == GroupAcc(keys, series.rows, ks[j], 1)
                   IN  [key |-> ks[j], num |-> acc.sum,
                        den |-> IF agg_method = "mean" THEN acc.count ELSE 1]]]

apply_aggregation(table, series, group_by, aggregation) ==
  IF group_by \notin DfColumns(table) THEN Raise("KeyError")
  \* pd.concat accepts only Series and DataFrame objects
  ELSE IF ~IsSeries(series) THEN Raise("TypeError")
  ELSE IF ~IsDict(aggregation) THEN Raise("TypeError")
  ELSE IF "func" \notin DOMAIN aggregation.d THEN Raise("KeyError")
  ELSE IF aggregation.d["func"] \notin AGGREGATION_FUNCTIONS
    THEN Raise("UnsupportedAggregationError")
  \* two columns of temp_df carry the name group_by: the grouper is not
  \* 1-dimensional
  ELSE IF series.name = group_by THEN Raise("ValueError")
  ELSE [err |-> "none",
        val |-> GroupReduce([i \in 1..Len(table.rows) |-> table.rows[i].cells[group_by]],
                            series, aggregation.d["func"])]

(***************************************************************************)
(* parser.py.  A call returns or raises; stages lists the pipeline stages  *)
(* the call entered, in order.                                             *)
(***************************************************************************)
NoOutcome == [kind |-> "none"]
Returned(value, stages) == [kind |-> "return", value |-> value, stages |-> stages]
Raised(err, msg, stages) ==
  [kind |-> "raise", err |-> err, msg |-> msg, stages |-> stages]

\* ExpressionParser.evaluate, after validate_config succeeded
evaluate_pipeline(self_df, cfg) ==
  LET hasFilter == "filter" \in DOMAIN cfg
      f == IF hasFilter THEN apply_filters(self_df, cfg["filter"])
           ELSE [err |-> "none", df |-> self_df]
      s1 == IF hasFilter THEN <<"validate", "filter">> ELSE <<"validate">>
  IN  IF f.err # "none" THEN Raised(f.err, "", s1)
      ELSE
        LET ast_node == parse_expression(cfg["select"])
            s2 == Append(s1, "parse")
        IN  IF ast_node.err # "none" THEN Raised(ast_node.err, "", s2)
            ELSE
              LET series == evaluate_ast(f.df, ast_node.node)
                  s3 == Append(s2, "evaluate")
              IN  IF series.err # "none" THEN Raised(series.err, "", s3)
                  ELSE IF "aggregate" \in DOMAIN cfg THEN
                    LET agg == apply_aggregation(f.df, series.val, cfg["group_by"],
                                                 cfg["aggregate"])
                        s4 == Append(s3, "aggregate")
                    IN  IF agg.err # "none" THEN Raised(agg.err, "", s4)
                        ELSE Returned(agg.val, s4)
                  ELSE Returned(series.val, s3)

\* ExpressionParser.evaluate
evaluate(self_df, cfg) ==
  LET v == validate_config(cfg, DfColumns(self_df))
  IN  IF v # OK THEN Raised("ConfigValidationError", v, <<"validate">>)
      ELSE evaluate_pipeline(self_df, cfg)

\* len(y)
Length(y) == Len(y.rows)

\* pd.Series(range(n), name="index")
RangeSeries(n) == Series("index", [i \in 1..n |-> [idx |-> i - 1, v |-> i - 1]])

\* config.get(key, default)
Get(cfg, key, default) == IF key \in DOMAIN cfg THEN cfg[key] ELSE default

\* ExpressionParser.evaluate_plot_config
evaluate_plot_config(self_df, cfg) ==
  LET v == validate_plot_config(cfg, DfColumns(self_df))
      hasFilter == "filter" \in DOMAIN cfg
      f == IF hasFilter THEN apply_filters(self_df, cfg["filter"])
           ELSE [err |-> "none", df |-> self_df]
      s1 == IF hasFilter THEN <<"plot_validate", "plot_filter">>
            ELSE <<"plot_validate">>
  IN  IF v # OK THEN Raised("ConfigValidationError", v, <<"plot_validate">>)
      ELSE IF f.err # "none" THEN Raised(f.err, "", s1)
      ELSE
        LET filtered_df == Copy(f.df)
        IN  IF "select" \in DOMAIN cfg THEN
              LET y == evaluate(filtered_df, cfg)
              IN  IF y.kind = "raise" THEN [y EXCEPT !.stages = s1 \o @]
                  ELSE IF y.value.kind = "scalar"
                    THEN Raised("TypeError", "", s1 \o y.stages)
                  ELSE Returned([x |-> RangeSeries(Length(y.value)), y |-> y.value,
                                 x_name |-> "index",
                                 y_name |-> Get(cfg, "name", "value")],
                                s1 \o y.stages)
            ELSE IF "x-values" \in DOMAIN cfg /\ "y-values" \in DOMAIN cfg THEN
              LET x == evaluate(filtered_df, cfg["x-values"])
                  y == evaluate(filtered_df, cfg["y-values"])
              IN  IF x.kind = "raise" THEN [x EXCEPT !.stages = s1 \o @]
                  ELSE IF y.kind = "raise"
                    THEN [y EXCEPT !.stages = s1 \o x.stages \o @]
                  ELSE Returned([x |-> x.value, y |-> y.value,
                                 x_name |-> Get(cfg["x-values"], "name", "x-values"),
                                 y_name |-> Get(cfg["y-values"], "name", "y-values")],
                                s1 \o x.stages \o y.stages)
            ELSE Raised("ConfigValidationError",
                        "Config must have either 'select' or both 'x-values' and 'y-values'",
                        s1)

(***************************************************************************)
(* Inputs: the configs the callers pass                                    *)
(***************************************************************************)
\* {} and the one-key dicts {key: v}
Opt(key, S) == {EmptyDict} \cup {key :> v : v \in S}

BinExprs(ops, L, R) ==
  {Dict([op |-> o, left |-> l, right |-> r]) : o \in ops, l \in L, r \in R}

SeqsUpTo(S, n) == UNION {[1..k -> S] : k \in 1..n}

\* well-formed select expressions over the columns and a literal
DataLeaves == {Str(Columns[i]) : i \in 1..Len(Columns)} \cup {Num(1)}
\* binary expressions with a binary expression as one operand
NestedSelects ==
  BinExprs(SUPPORTED_BINARY_OPS,
           {Dict([op |-> "+", left |-> Str("a"), right |-> Num(1)])},
           {Str("b"), Num(1)})
    \cup BinExprs({"-"}, {Num(1)},
                  {Dict([op |-> "-", left |-> Num(1), right |-> Num(1)]),
                   Dict([op |-> "-", left |-> Str("b"), right |-> Str("a")])})
DataSelects ==
  DataLeaves \cup BinExprs(SUPPORTED_BINARY_OPS, DataLeaves, DataLeaves)
    \cup NestedSelects

FilterEntries ==
  {Dict([column |-> c, op |-> o, value |-> Num(1)]) :
     c \in ColumnSet, o \in FILTER_OPERATORS}
DataFilters == {List(fs) : fs \in SeqsUpTo(FilterEntries, MaxFilters)}

DataAggregates ==
  {("group_by" :> g) @@ ("aggregate" :> Dict([func |-> fn])) :
     g \in ColumnSet, fn \in AGGREGATION_FUNCTIONS}

DataConfigs ==
  {("select" :> s) @@ f @@ a :
     s \in DataSelects, f \in Opt("filter", DataFilters),
     a \in {EmptyDict} \cup DataAggregates}

(***************************************************************************)
(* The parser object and its callers                                       *)
(***************************************************************************)
Init ==
  /\ caller \in Tables
  /\ df = Copy(caller)
  /\ pc = "idle"
  /\ call = "none"
  /\ config = EmptyDict
  /\ outcome = NoOutcome

\* evaluate that stores the filtered frame in self.df
Evaluate_storefiltered(cfg) ==
  /\ pc = "idle"
  /\ pc' = "returned"
  /\ call' = "evaluate"
  /\ config' = cfg
  /\ outcome' = evaluate(df, cfg)
  /\ df' = IF validate_config(cfg, DfColumns(df)) = OK /\ "filter" \in DOMAIN cfg
             /\ apply_filters(df, cfg["filter"]).err = "none"
           THEN apply_filters(df, cfg["filter"]).df ELSE df
  /\ UNCHANGED caller

\* parser.evaluate(cfg)
Evaluate(cfg) ==
  /\ pc = "idle"
  /\ pc' = "returned"
  /\ call' = "evaluate"
  /\ config' = cfg
  /\ outcome' = evaluate(df, cfg)
  /\ UNCHANGED <<caller, df>>

\* parser.evaluate_plot_config(cfg)
EvaluatePlotConfig(cfg) ==
  /\ pc = "idle"
  /\ pc' = "returned"
  /\ call' = "evaluate_plot_config"
  /\ config' = cfg
  /\ outcome' = evaluate_plot_config(df, cfg)
  /\ UNCHANGED <<caller, df>>

\* a direct call of the builder: parse_expression(expr)
ParseExpression(expr) ==
  /\ pc = "idle"
  /\ pc' = "returned"
  /\ call' = "parse_expression"
  /\ config' = expr
  /\ outcome' = LET r == parse_expression(expr)
                IN  IF r.err = "none" THEN Returned(r.node, <<"parse">>)
                    ELSE Raised(r.err, "", <<"parse">>)
  /\ UNCHANGED <<caller, df>>

\* the caller takes the result or the exception; the parser is ready for
\* its next call
Return ==
  /\ pc = "returned"
  /\ pc' = "idle"
  /\ call' = "none"
  /\ config' = EmptyDict
  /\ outcome' = NoOutcome
  /\ UNCHANGED <<caller, df>>

(***************************************************************************)
(* Inputs: configs of every shape, well-formed or not                      *)
(***************************************************************************)
Ops == SUPPORTED_BINARY_OPS \cup {"*"}

\* a known column, an unknown column, a number and a value of no
\* expression type
ShapeLeaves == {Str("a"), Str("zz"), Num(1), Null}

MalformedExprs ==
  { Dict(EmptyDict),
    Dict([left |-> Str("a"), right |-> Str("a")]),
    Dict([op |-> "+", right |-> Str("a")]),
    Dict([op |-> "+", left |-> Str("a")]) }

\* the expressions of nesting depth exactly d; beyond depth 1 one operand
\* is nested and the other is a leaf
RECURSIVE ExprsAt(_)
ExprsAt(d) ==
  IF d = 0 THEN ShapeLeaves
  ELSE IF d = 1 THEN BinExprs(Ops, ShapeLeaves, ShapeLeaves) \cup MalformedExprs
  ELSE BinExprs(Ops, ExprsAt(d - 1), ShapeLeaves)
         \cup BinExprs(Ops, ShapeLeaves, ExprsAt(d - 1))

ShapeSelects == UNION {ExprsAt(d) : d \in 0..MaxDepth}

ValidFilter == List(<<Dict([column |-> "a", op |-> "<", value |-> Num(1)])>>)
ValidAggregate == ("group_by" :> "a") @@ ("aggregate" :> Dict([func |-> "sum"]))

\* every select shape, alone or next to one other key
SelectShapeConfigs ==
  {("select" :> s) @@ r :
     s \in ShapeSelects,
     r \in {EmptyDict, "filter" :> ValidFilter, "group_by" :> "a",
            "aggregate" :> Dict([func |-> "sum"]), ValidAggregate}}

ShapeFilterEntries ==
  {Dict([column |-> c, op |-> o, value |-> v]) :
     c \in {"a", "zz"}, o \in {"<", "==", "!="}, v \in {Num(1), Str("x"), Null}}
    \cup { Null,
           Dict([op |-> "<", value |-> Num(1)]),
           Dict([column |-> "a", value |-> Num(1)]),
           Dict([column |-> "a", op |-> "<"]),
           Dict([column |-> "a", op |-> "<", value |-> Num(1), extra |-> Num(1)]),
           Dict([column |-> "a", op |-> "==", value |-> Bool(1)]) }

ShapeFilters ==
  {Null, Str("a"), List(<<>>)}
    \cup {List(fs) : fs \in SeqsUpTo(ShapeFilterEntries, MaxFilters)}

\* every filter shape
FilterShapeConfigs ==
  {s @@ ("filter" :> f) @@ r :
     s \in Opt("select", {Str("a"), Num(1)}), f \in ShapeFilters,
     r \in {EmptyDict, "group_by" :> "a", "aggregate" :> Dict([func |-> "sum"]),
            ValidAggregate}}

ShapeAggregates ==
  {Dict([func |-> fn]) : fn \in AGGREGATION_FUNCTIONS \cup {"max"}}
    \cup {Dict(EmptyDict), Null}

\* every combination of group_by, aggregate and the remaining keys
KeyShapeConfigs ==
  {s @@ f @@ g @@ a @@ n @@ u :
     s \in Opt("select", {Str("a"), Str("b"), Str("zz"), Num(1), Bool(1), List(<<>>),
                          Dict([op |-> "+", left |-> Num(1), right |-> Num(1)]),
                          Dict([op |-> "*", left |-> Str("a"), right |-> Str("b")])}),
     f \in Opt("filter", {ValidFilter}),
     g \in Opt("group_by", {"a", "zz"}),
     a \in Opt("aggregate", ShapeAggregates),
     n \in Opt("name", {"series"}),
     u \in Opt("unknown", {Num(1)})}

ShapeConfigs == SelectShapeConfigs \cup FilterShapeConfigs \cup KeyShapeConfigs

\* the sides of a two-sided plot config
SideConfigs ==
  {EmptyDict} \cup
  {("select" :> s) @@ r @@ n :
     s \in {Str("a"), Str("zz"), Num(1),
            Dict([op |-> "-", left |-> Str("a"), right |-> Str("b")])},
     r \in {EmptyDict, "filter" :> ValidFilter, ValidAggregate},
     n \in Opt("name", {"series"})}

TopFilters ==
  { ValidFilter, Null, List(<<>>),
    List(<<Dict([column |-> "a", op |-> "!=", value |-> Num(1)])>>),
    List(<<Dict([column |-> "zz", op |-> "<", value |-> Num(1)])>>),
    List(<<Dict([column |-> "a", op |-> "<"])>>) }

TwoSidedConfigs ==
  {x @@ y @@ f @@ u :
     x \in Opt("x-values", SideConfigs), y \in Opt("y-values", SideConfigs),
     f \in Opt("filter", TopFilters), u \in Opt("name", {"series"})}

PlotShapeConfigs == TwoSidedConfigs \cup KeyShapeConfigs \cup FilterShapeConfigs

\* simple-form plot configs: well-formed configs with at most one filter,
\* with or without a name
DataPlotConfigs ==
  {("select" :> s) @@ f @@ a @@ n :
     s \in DataSelects,
     f \in Opt("filter", {List(<<e>>) : e \in FilterEntries}),
     a \in {EmptyDict} \cup DataAggregates,
     n \in Opt("name", {"series"})}

EvaluateData ==
  /\ pc = "idle"
  /\ \E cfg \in DataConfigs : Evaluate(cfg)

EvaluatePlotData ==
  /\ pc = "idle"
  /\ \E cfg \in DataPlotConfigs : EvaluatePlotConfig(cfg)

EvaluateShape ==
  /\ pc = "idle"
  /\ \E cfg \in ShapeConfigs : Evaluate(cfg)

EvaluatePlotShape ==
  /\ pc = "idle"
  /\ \E cfg \in PlotShapeConfigs : EvaluatePlotConfig(cfg)

\* the expressions handed to the builder directly: every select shape, and
\* a boolean and a list alone and as an operand
ParseInputs ==
  ShapeSelects \cup {Bool(1), List(<<>>)}
    \cup BinExprs({"+"}, {Bool(1), List(<<>>)}, {Str("a")})
    \cup BinExprs({"+"}, {Str("a")}, {Bool(1), List(<<>>)})

ParseShape ==
  /\ pc = "idle"
  /\ \E expr \in ParseInputs : ParseExpression(expr)

\* calls with well-formed configs on every table
Next ==
  \/ EvaluateData
  \/ EvaluatePlotData
  \/ Return

Spec == Init /\ [][Next]_vars

\* calls with configs of every shape on the one-row tables
InitShape == Init /\ Len(caller.rows) = 1

NextShape ==
  \/ EvaluateShape
  \/ EvaluatePlotShape
  \/ ParseShape
  \/ Return

SpecShape == InitShape /\ [][NextShape]_vars

(***************************************************************************)
(* Properties                                                              *)
(***************************************************************************)
Evaluated == pc = "returned" /\ call = "evaluate"
Plotted == pc = "returned" /\ call = "evaluate_plot_config"

RaisedErr(errs) == outcome.kind = "raise" /\ outcome.err \in errs

\* the pipeline stopped in validation: no filter was applied, no
\* expression was built and no column was looked up
StoppedInValidation ==
  /\ RaisedErr({"ConfigValidationError"})
  /\ outcome.stages = <<"validate">>

\* C1: a config that validate_config accepts for the table's columns never
\* makes evaluate raise UnsupportedOperatorError, UnsupportedAggregationError
\* or the builder's invalid-expression-format error.
C1_ValidatedNeverUnsupported ==
  (Evaluated /\ validate_config(config, DfColumns(df)) = OK)
    => ~RaisedErr({"UnsupportedOperatorError", "UnsupportedAggregationError",
                   "InvalidExpressionFormat"})

\* a validated config ran through filter, build, evaluate and aggregate
C1_Witness ==
  /\ Evaluated
  /\ validate_config(config, DfColumns(df)) = OK
  /\ outcome.kind = "return"
  /\ outcome.stages = <<"validate", "filter", "parse", "evaluate", "aggregate">>

\* the expression names, at some depth, a column that is not in cols
RECURSIVE RefsUnknownColumn(_, _)
RefsUnknownColumn(expr, cols) ==
  IF IsStr(expr) THEN expr.s \notin cols
  ELSE IF IsDict(expr) THEN
    \/ "left" \in DOMAIN expr.d /\ RefsUnknownColumn(expr.d["left"], cols)
    \/ "right" \in DOMAIN expr.d /\ RefsUnknownColumn(expr.d["right"], cols)
  ELSE FALSE

\* C2: a select that references, at any nesting depth, a column the table
\* does not have makes evaluate raise ConfigValidationError before any
\* filter is applied or any column is looked up.
C2_UnknownColumnRejected ==
  (Evaluated /\ "select" \in DOMAIN config
     /\ RefsUnknownColumn(config["select"], DfColumns(df)))
    => StoppedInValidation

\* the unknown column sits two levels down, under supported operators
C2_Witness ==
  /\ Evaluated
  /\ "select" \in DOMAIN config
  /\ config["select"] \in ExprsAt(2)
  /\ RefsUnknownColumn(config["select"], DfColumns(df))
  /\ ~RefsUnknownColumn(config["select"], DfColumns(df) \cup {"zz"})
  /\ parse_expression(config["select"]).err = "none"
  /\ StoppedInValidation

UnpairedGrouping(cfg) ==
  \/ "group_by" \in DOMAIN cfg /\ "aggregate" \notin DOMAIN cfg
  \/ "aggregate" \in DOMAIN cfg /\ "group_by" \notin DOMAIN cfg

\* C3: evaluate raises ConfigValidationError whenever the config has
\* group_by without aggregate or aggregate without group_by, whatever its
\* other keys are.
C3_UnpairedGroupingRejected ==
  (Evaluated /\ UnpairedGrouping(config)) => StoppedInValidation

\* group_by alone, next to a select and a filter that are both valid
C3_Witness ==
  /\ Evaluated
  /\ "group_by" \in DOMAIN config /\ "aggregate" \notin DOMAIN config
  /\ DOMAIN config = {"select", "filter", "group_by"}
  /\ validate_config([k \in {"select", "filter"} |-> config[k]], DfColumns(df)) = OK
  /\ StoppedInValidation

\* aggregate alone, next to a valid select
C3_WitnessAggregate ==
  /\ Evaluated
  /\ DOMAIN config = {"select", "aggregate"}
  /\ StoppedInValidation

\* select is {op, left, right} over two existing columns with an operator
\* outside the supported set
UnsupportedOpOverColumns(cfg, cols) ==
  /\ "select" \in DOMAIN cfg
  /\ IsDict(cfg["select"])
  /\ DOMAIN cfg["select"].d = {"op", "left", "right"}
  /\ cfg["select"].d["op"] \notin SUPPORTED_BINARY_OPS
  /\ IsStr(cfg["select"].d["left"]) /\ cfg["select"].d["left"].s \in cols
  /\ IsStr(cfg["select"].d["right"]) /\ cfg["select"].d["right"].s \in cols

Validated == validate_config(config, DfColumns(df)) = OK

\* C5: for a validated config whose select is a bare number N, evaluate
\* returns the scalar N, whatever other valid keys the config carries.
C5_LiteralReturnsScalar ==
  (Evaluated /\ Validated /\ IsNumber(config["select"]))
    => (outcome.kind = "return" /\ outcome.value = Scalar(config["select"]))

\* the expression evaluates to a scalar: a number, or a binary expression
\* whose leaves are all numbers
RECURSIVE IsScalarExpr(_)
IsScalarExpr(expr) ==
  IF IsNumber(expr) THEN TRUE
  ELSE IF IsDict(expr) /\ {"left", "right"} \subseteq DOMAIN expr.d
    THEN IsScalarExpr(expr.d["left"]) /\ IsScalarExpr(expr.d["right"])
  ELSE FALSE

\* C6: validate_config rejects every config that combines aggregate and
\* group_by with a select that evaluates to a scalar, so apply_aggregation
\* is never invoked with a scalar.
C6_ScalarAggregateRejected ==
  (Evaluated /\ {"select", "group_by", "aggregate"} \subseteq DOMAIN config
     /\ IsScalarExpr(config["select"]))
    => StoppedInValidation

\* C7: a plot config that validate_plot_config accepts runs its top-level
\* filter and its per-side evaluations without UnsupportedOperatorError and
\* without a failed lookup.
C7_ValidatedPlotNeverFails ==
  (Plotted /\ validate_plot_config(config, DfColumns(df)) = OK)
    => ~RaisedErr({"UnsupportedOperatorError", "KeyError"})

\* the filter condition holds of the row
FilterHolds(row, f) ==
  LET c == row.cells[f.d["column"]]
      v == f.d["value"].n
  IN  CASE f.d["op"] = ">" -> c > v
        [] f.d["op"] = "<" -> c < v
        [] f.d["op"] = "==" -> c = v

\* the rows of the table that satisfy all the conditions, in table order
Surviving(table, items) ==
  SelectSeq(table.rows, LAMBDA r : \A i \in 1..Len(items) : FilterHolds(r, items[i]))

\* C8: apply_filters returns exactly the rows of the original table that
\* satisfy all the filters, in original order and with their original row
\* index; evaluate with select = a column returns that column restricted to
\* those rows and indices.
C8_FiltersAreConjunction ==
  (Evaluated /\ Validated /\ "filter" \in DOMAIN config)
    => LET items == config["filter"].items
           kept == Surviving(caller, items)
           r == apply_filters(df, config["filter"])
       IN  /\ r.err = "none"
           /\ r.df.columns = caller.columns
           /\ r.df.rows = kept
           /\ (IsStr(config["select"]) /\ "aggregate" \notin DOMAIN config)
                => /\ outcome.kind = "return"
                   /\ outcome.value.kind = "series"
                   /\ outcome.value.rows =
                        [i \in 1..Len(kept) |->
                           [idx |-> kept[i].idx, v |-> kept[i].cells[config["select"].s]]]

\* the first of two filters keeps both rows, the second leaves only the
\* last row, which keeps its index 1
C8_Witness ==
  /\ Evaluated /\ Validated /\ "filter" \in DOMAIN config
  /\ Len(config["filter"].items) = 2
  /\ Len(caller.rows) = 2
  /\ Len(Surviving(caller, SubSeq(config["filter"].items, 1, 1))) = 2
  /\ IsStr(config["select"]) /\ "aggregate" \notin DOMAIN config
  /\ outcome.kind = "return"
  /\ Len(outcome.value.rows) = 1
  /\ outcome.value.rows[1].idx = 1

\* the value of a validated select expression at one row
RECURSIVE ValueAt(_, _)
ValueAt(expr, row) ==
  IF IsStr(expr) THEN row.cells[expr.s]
  ELSE IF IsNumber(expr) THEN expr.n
  ELSE IF expr.d["op"] = "+"
    THEN ValueAt(expr.d["left"], row) + ValueAt(expr.d["right"], row)
  ELSE ValueAt(expr.d["left"], row) - ValueAt(expr.d["right"], row)

RECURSIVE SumOver(_, _)
SumOver(S, val) ==
  IF S = {} THEN 0
  ELSE LET x == CHOOSE y \in S : TRUE IN val[x] + SumOver(S \ {x}, val)

\* the rows the config's filter keeps (all rows without a filter)
FilteredRows(table, cfg) ==
  IF "filter" \in DOMAIN cfg THEN Surviving(table, cfg["filter"].items) ELSE table.rows

\* the result has one entry per key present in the filtered rows, in
\* ascending key order, each the mean / sum of the select values of the
\* filtered rows with that key
GroupedAsSpecified(result, table, cfg) ==
  LET rows == FilteredRows(table, cfg)
      G == cfg["group_by"]
      keys == {rows[i].cells[G] : i \in 1..Len(rows)}
      members(k) == {i \in 1..Len(rows) : rows[i].cells[G] = k}
      total(k) == SumOver(members(k), [i \in 1..Len(rows) |-> ValueAt(cfg["select"], rows[i])])
  IN  /\ result.kind = "grouped"
      /\ Len(result.rows) = Cardinality(keys)
      /\ \A j \in 1..Len(result.rows) : result.rows[j].key \in keys
      /\ \A j \in 1..(Len(result.rows) - 1) : result.rows[j].key < result.rows[j + 1].key
      /\ \A j \in 1..Len(result.rows) :
           LET e == result.rows[j]
           IN  IF cfg["aggregate"].d["func"] = "mean"
                 THEN e.den > 0 /\ e.num * Cardinality(members(e.key)) = total(e.key) * e.den
                 ELSE e.den = 1 /\ e.num = total(e.key)

\* C9: for a valid config with group_by = G and aggregate.func in
\* {mean, sum} whose select evaluates to a per-row column V, evaluate
\* returns one entry per distinct value of G in the filtered table, in
\* ascending key order, each the mean / sum of V over the filtered rows
\* with that key.
C9_GroupedResult ==
  (Evaluated /\ Validated /\ "aggregate" \in DOMAIN config
     /\ ~IsScalarExpr(config["select"]))
    => (outcome.kind = "return" /\ GroupedAsSpecified(outcome.value, caller, config))

\* C10: for a valid config with select = an existing column and neither
\* filter nor aggregate, evaluate returns exactly that column: same
\* length, same values in the same row order, same row identifiers.
C10_ColumnUnchanged ==
  (Evaluated /\ Validated /\ IsStr(config["select"])
     /\ DOMAIN config \subseteq {"select", "name"})
    => /\ outcome.kind = "return"
       /\ outcome.value.kind = "series"
       /\ Len(outcome.value.rows) = Len(caller.rows)
       /\ \A i \in 1..Len(caller.rows) :
            /\ outcome.value.rows[i].idx = caller.rows[i].idx
            /\ outcome.value.rows[i].v = caller.rows[i].cells[config["select"].s]

\* the second column of a table whose two columns differ was selected
C10_Witness ==
  /\ Evaluated /\ Validated
  /\ config = ("select" :> Str("b"))
  /\ Len(caller.rows) = MaxRows
  /\ \E i \in 1..Len(caller.rows) : caller.rows[i].cells["a"] # caller.rows[i].cells["b"]
  /\ outcome.kind = "return"
  /\ Len(outcome.value.rows) = MaxRows

\* a row that no scalar expression reads
NoRow == [idx |-> 0, cells |-> EmptyDict]

\* C11: for a BinaryOp node with op in {+, -}, evaluate_ast returns a
\* scalar when both operands evaluate to scalars; otherwise it returns a
\* column with exactly the rows and row indices of the table passed in,
\* whose value at each row is op applied to the operands' values at that
\* row, a scalar operand being used unchanged at every row.
C11_BinaryOpRowwise ==
  (Evaluated /\ Validated /\ IsDict(config["select"])
     /\ "aggregate" \notin DOMAIN config)
    => LET rows == FilteredRows(caller, config)
           table == [columns |-> caller.columns, rows |-> rows]
           r == evaluate_ast(table, parse_expression(config["select"]).node)
       IN  /\ outcome.kind = "return"
           /\ r.err = "none" /\ r.val = outcome.value
           /\ IF IsScalarExpr(config["select"])
                THEN outcome.value = Scalar(Num(ValueAt(config["select"], NoRow)))
                ELSE /\ outcome.value.kind = "series"
                     /\ outcome.value.rows =
                          [i \in 1..Len(rows) |->
                             [idx |-> rows[i].idx,
                              v |-> ValueAt(config["select"], rows[i])]]

\* 1 - a on the rows a filter left: the last row, whose a is 0
C11_Witness ==
  /\ Evaluated /\ Validated
  /\ config["select"] = Dict([op |-> "-", left |-> Num(1), right |-> Str("a")])
  /\ "filter" \in DOMAIN config /\ "aggregate" \notin DOMAIN config
  /\ Len(caller.rows) = 2
  /\ outcome.kind = "return"
  /\ outcome.value.rows = <<[idx |-> 1, v |-> 1]>>

\* the elementwise difference of two columns, and a nested expression
C11_WitnessColumns ==
  /\ Evaluated /\ Validated
  /\ config["select"] \in NestedSelects
  /\ ~IsScalarExpr(config["select"])
  /\ outcome.kind = "return"
  /\ Len(outcome.value.rows) = MaxRows

\* C12: when the filters of a valid config remove every row, evaluate does
\* not raise: a select of a column or of a binary expression over columns
\* yields a column of length 0, and with group_by + aggregate a grouped
\* result with zero keys.
C12_EmptyAfterFilter ==
  (Evaluated /\ Validated /\ "filter" \in DOMAIN config
     /\ FilteredRows(caller, config) = <<>>
     /\ ~IsScalarExpr(config["select"]))
    => /\ outcome.kind = "return"
       /\ outcome.value.kind =
            (IF "aggregate" \in DOMAIN config THEN "grouped" ELSE "series")
       /\ outcome.value.rows = <<>>

\* evaluate_plot_config stopped in validate_plot_config
PlotRejected ==
  /\ RaisedErr({"ConfigValidationError"})
  /\ outcome.stages = <<"plot_validate">>

\* the select of the config is a bare number
BareNumberSelect(cfg) == "select" \in DOMAIN cfg /\ cfg["select"].t \in {"num", "bool"}

\* what C13 says validate_plot_config accepts
PlotAcceptable(cfg, cols) ==
  IF "select" \in DOMAIN cfg
    THEN ~BareNumberSelect(cfg) /\ validate_config(cfg, cols) = OK
  ELSE IF {"x-values", "y-values"} \subseteq DOMAIN cfg
    THEN /\ ~BareNumberSelect(cfg["x-values"])
         /\ ~BareNumberSelect(cfg["y-values"])
         /\ validate_config(cfg["x-values"], cols) = OK
         /\ validate_config(cfg["y-values"], cols) = OK
  ELSE FALSE

\* C13: validate_plot_config raises ConfigValidationError for a config
\* that is neither simple nor two-sided, for a simple config whose select
\* is a bare number and for a two-sided config with a bare number as the
\* select of a side; every other config is accepted exactly when
\* validate_config accepts the simple config, respectively both sides.
C13_PlotValidation ==
  Plotted => (PlotRejected <=> ~PlotAcceptable(config, DfColumns(df)))

\* both sides pass validate_config, the y side selects a bare number
C13_Witness ==
  /\ Plotted
  /\ DOMAIN config = {"x-values", "y-values"}
  /\ validate_config(config["x-values"], DfColumns(df)) = OK
  /\ validate_config(config["y-values"], DfColumns(df)) = OK
  /\ ~BareNumberSelect(config["x-values"])
  /\ BareNumberSelect(config["y-values"])
  /\ PlotRejected

\* a two-sided config with further top-level keys is accepted
C13_WitnessAccepted ==
  /\ Plotted
  /\ {"x-values", "y-values", "filter", "name"} \subseteq DOMAIN config
  /\ ~PlotRejected

\* C14: for a valid simple-form plot config, evaluate_plot_config returns
\* (x, y, "index", config.name or "value") where y is the result of
\* evaluate(config) on the parser's own table and x is 0, 1, .., len(y)-1.
C14_SimplePlot ==
  (Plotted /\ "select" \in DOMAIN config
     /\ validate_plot_config(config, DfColumns(df)) = OK
     /\ evaluate(caller, config).kind = "return")
    => /\ outcome.kind = "return"
       /\ outcome.value.y = evaluate(caller, config).value
       /\ outcome.value.x.rows =
            [i \in 1..Len(outcome.value.y.rows) |-> [idx |-> i - 1, v |-> i - 1]]
       /\ outcome.value.x_name = "index"
       /\ outcome.value.y_name =
            (IF "name" \in DOMAIN config THEN config["name"] ELSE "value")

\* C15: no call of evaluate or evaluate_plot_config, returning or raising,
\* changes the caller's table or the parser's private copy; so the result
\* of a call is the one its config gives on the caller's original table,
\* whatever calls ran before it.
C15_TablesUnchanged ==
  /\ [][caller' = caller /\ df' = df]_vars
  /\ [](/\ df = caller
        /\ Evaluated => outcome = evaluate(caller, config)
        /\ Plotted => outcome = evaluate_plot_config(caller, config))

\* a call has filtered rows away and returned; the tables are whole
C15_Witness ==
  /\ Evaluated
  /\ "filter" \in DOMAIN config
  /\ outcome.kind = "return"
  /\ outcome.value.kind = "series"
  /\ Len(outcome.value.rows) < Len(df.rows)
  /\ df = caller

\* the filter entry is well formed, its keys being as keysOk demands
FilterEntryOk(f, cols, exact) ==
  /\ f.t = "dict"
  /\ IF exact THEN DOMAIN f.d = {"column", "op", "value"}
     ELSE {"column", "op", "value"} \subseteq DOMAIN f.d
  /\ f.d["column"] \in cols
  /\ f.d["op"] \in {">", "<", "=="}
  /\ f.d["value"].t \in {"num", "bool", "str"}

\* the filter is a non-empty list of well-formed entries
FilterOk(filters, cols, exact) ==
  /\ filters.t = "list"
  /\ Len(filters.items) > 0
  /\ \A i \in 1..Len(filters.items) : FilterEntryOk(filters.items[i], cols, exact)

\* C16 as stated: validate_config accepts a config with a filter only if
\* the filter is a non-empty list whose entries are objects with exactly
\* the keys {column, op, value}, a known column, an operator of
\* {>, <, ==} and a number or string value; otherwise it raises
\* ConfigValidationError.
C16_FilterExactKeys ==
  (Evaluated /\ "filter" \in DOMAIN config)
    => /\ Validated => FilterOk(config["filter"], DfColumns(df), TRUE)
       /\ ~FilterOk(config["filter"], DfColumns(df), TRUE) => StoppedInValidation

\* C16 amended: the entries must carry at least the keys
\* {column, op, value}; further keys are accepted.
C16_FilterRequiredKeys ==
  (Evaluated /\ "filter" \in DOMAIN config)
    => /\ Validated => FilterOk(config["filter"], DfColumns(df), FALSE)
       /\ ~FilterOk(config["filter"], DfColumns(df), FALSE) => StoppedInValidation

\* a filter entry with a further key was accepted and applied
C16_Witness ==
  /\ Evaluated /\ Validated /\ "filter" \in DOMAIN config
  /\ \E i \in 1..Len(config["filter"].items) :
       "extra" \in DOMAIN config["filter"].items[i].d
  /\ outcome.kind = "return"
  /\ "filter" \in {outcome.stages[i] : i \in 1..Len(outcome.stages)}

\* a filter whose only fault is a value that is neither number nor string
\* was rejected
C16_WitnessRejected ==
  /\ Evaluated /\ "filter" \in DOMAIN config
  /\ config["filter"].t = "list"
  /\ Len(config["filter"].items) = 1
  /\ config["filter"].items[1].t = "dict"
  /\ DOMAIN config["filter"].items[1].d = {"column", "op", "value"}
  /\ config["filter"].items[1].d["value"] = Null
  /\ outcome.kind = "raise"
  /\ outcome.msg = "Filter value must be int, float, or str"

Parsed == pc = "returned" /\ call = "parse_expression"

\* a string, a number that is no boolean, or an object carrying op whose
\* left and right are present and are such expressions themselves
RECURSIVE IsExpression(_)
IsExpression(expr) ==
  \/ expr.t \in {"str", "num"}
  \/ /\ expr.t = "dict"
     /\ {"op", "left", "right"} \subseteq DOMAIN expr.d
     /\ IsExpression(expr.d["left"])
     /\ IsExpression(expr.d["right"])

\* C17: parse_expression fails with the invalid-expression-format error for
\* every input that is not a string, a number or an object carrying op with
\* parseable left and right; it returns a ColumnRef for every string and a
\* Literal only for numbers.
C17_InvalidFormatRejected ==
  Parsed =>
    /\ ~IsExpression(config) => RaisedErr({"InvalidExpressionFormat"})
    /\ config.t = "str" =>
         outcome.kind = "return" /\ outcome.value = ColumnRefNode(config.s)
    /\ (outcome.kind = "return" /\ outcome.value.node = "Literal") => config.t = "num"

====
